---- MODULE Spec2Model ----
(***************************************************************************)
(* Model of the two pieces of logic of the Image-to-Setting Animator:      *)
(*   - generateVeoVideo (services/geminiService): submit, auth recovery,   *)
(*     polling and result extraction of a video generation operation;      *)
(*   - mergeImages (utils.ts): the canvas compositor.                      *)
(* Every awaited boundary of the code is one action: the continuation that *)
(* runs when the awaited promise settles.                                  *)
(***************************************************************************)
EXTENDS Integers, Naturals, Sequences, FiniteSets, TLC

\* ---------------------------------------------------------------- bounds
\* Cap on the number of status polls issued by one generateVeoVideo call.
MaxPolls == 3

\* Largest pixel width/height of a decoded image.
MaxDim == 3

\* Largest number of step components mounted during a session.
MaxMounts == 4

\* ------------------------------------------------------------ JS values
UNDEF == "<undefined>"

NONSTR == "<non-string>"

THROWS == "<throws>"

PHRASE == "Requested entity was not found"

CONTAINS == "404 Requested entity was not found."

OTHERTEXT == "quota exceeded"

\* String.prototype.includes("Requested entity was not found")
IncludesPhrase(s) == s \in {PHRASE, CONTAINS}

\* a value on which .includes cannot be called
NoIncludes(s) == s \in {UNDEF, NONSTR}

\* JS truthiness of the values used here
Falsy(v) == v \in {UNDEF, ""}

API_KEY == "KEY"

\* ---------------------------------------------------------------- errors
\* A rejection value.  kind "object" is any non-nullish thrown value; its
\* fields are what lines 202-213 read from it:
\*   status, code       error.status / error.code (0 = absent)
\*   message            error.message
\*   toStr              error.toString()
\*   nestedMessage,     error.error.message / error.error.code
\*   nestedCode
\*   json               JSON.stringify(error): a string, undefined, or
\*                      THROWS when serialization raises (circular, BigInt)
Err(k, st, cd, msg, ts, nmsg, ncd, js) ==
  [kind |-> k, status |-> st, code |-> cd, message |-> msg, toStr |-> ts,
   nestedMessage |-> nmsg, nestedCode |-> ncd, json |-> js]

NoError == Err("none", 0, 0, UNDEF, UNDEF, UNDEF, 0, UNDEF)

NullError == Err("null", 0, 0, UNDEF, UNDEF, UNDEF, 0, "null")

UndefinedError == Err("undefined", 0, 0, UNDEF, UNDEF, UNDEF, 0, UNDEF)

\* the TypeError raised by the runtime inside the catch block
TypeErrorValue == Err("TypeError", 0, 0, "TypeError", "TypeError", UNDEF, 0, "{}")

\* new Error("No video URI returned")
MissingResultError ==
  Err("Error", 0, 0, "No video URI returned", "Error: No video URI returned", UNDEF, 0, "{}")

\* rejection of window.aistudio.openSelectKey()
KeySelectError ==
  Err("object", 0, 0, "You must select an API key", "Error: select", UNDEF, 0, "{}")

ObjectErrors ==
  { Err("object", st, cd, msg, ts, nmsg, ncd, js) :
      st \in {0, 404, 500}, cd \in {0, 404},
      msg \in {UNDEF, OTHERTEXT, PHRASE, CONTAINS, NONSTR},
      ts \in {OTHERTEXT, CONTAINS},
      nmsg \in {UNDEF, OTHERTEXT, CONTAINS},
      ncd \in {0, 404},
      js \in {THROWS, UNDEF, OTHERTEXT, CONTAINS} }

\* what performGeneration may reject with
SubmitErrors == ObjectErrors \cup {NullError, UndefinedError}

\* rejections of calls whose failure value the code never inspects
OpaqueErrors ==
  { NullError,
    Err("object", 500, 0, OTHERTEXT, OTHERTEXT, UNDEF, 0, OTHERTEXT),
    Err("object", 404, 404, PHRASE, CONTAINS, CONTAINS, 404, CONTAINS) }

\* ------------------------------------------------------ failure classifier
\* const errorMsg = error?.message || error?.toString() || "";
errorMsg(error) ==
  IF error.kind \in {"null", "undefined"} THEN ""
  ELSE IF ~Falsy(error.message) THEN error.message
  ELSE IF ~Falsy(error.toStr) THEN error.toStr
  ELSE ""

\* const nestedErrorMsg = error?.error?.message || "";
nestedErrorMsg(error) ==
  IF error.kind \in {"null", "undefined"} THEN ""
  ELSE IF ~Falsy(error.nestedMessage) THEN error.nestedMessage
  ELSE ""

\* const nestedErrorCode = error?.error?.code;
nestedErrorCode(error) ==
  IF error.kind \in {"null", "undefined"} THEN 0 ELSE error.nestedCode

\* const errorString = JSON.stringify(error);
errorString(error) == error.json

\* The value of isNotFound, or "TypeError" when evaluating lines 202-213
\* raises: JSON.stringify throwing, error.status read on null/undefined, or
\* .includes called on a value that has none.  The || chain short-circuits
\* left to right.
isNotFound(error) ==
  IF errorString(error) = THROWS THEN "TypeError"
  ELSE IF error.kind \in {"null", "undefined"} THEN "TypeError"
  ELSE IF error.status = 404 THEN "true"
  ELSE IF error.code = 404 THEN "true"
  ELSE IF nestedErrorCode(error) = 404 THEN "true"
  ELSE IF NoIncludes(errorMsg(error)) THEN "TypeError"
  ELSE IF IncludesPhrase(errorMsg(error)) THEN "true"
  ELSE IF NoIncludes(nestedErrorMsg(error)) THEN "TypeError"
  ELSE IF IncludesPhrase(nestedErrorMsg(error)) THEN "true"
  ELSE IF NoIncludes(errorString(error)) THEN "TypeError"
  ELSE IF IncludesPhrase(errorString(error)) THEN "true"
  ELSE "false"

\* ------------------------------------------------------------ operations
\* An operation handle as returned by generateVideos / getVideosOperation.
\* response is what operation.response?.generatedVideos?.[0]?.video?.uri
\* evaluates on: one of the three absent shapes, an empty uri, or a uri.
MissingShapes == {"<no response>", "<no generatedVideos>", "<no uri>"}

Responses == MissingShapes \cup {"", "https://video/1"}

Handle(i, d, r) == [id |-> i, done |-> d, response |-> r]

NoOperation == Handle(0, FALSE, "<no response>")

\* const videoUri = operation.response?.generatedVideos?.[0]?.video?.uri;
videoUri(op) == IF op.response \in MissingShapes THEN UNDEF ELSE op.response

\* const downloadUrl = `${videoUri}&key=${process.env.API_KEY}`;
downloadUrl(uri) == uri \o "&key=" \o API_KEY

Images == {"img"}

Prompts == {"", "wave"}

AspectRatios == {"16:9", "9:16"}

NoArgs == [imageBase64 |-> "", prompt |-> "", aspectRatio |-> ""]

\* the request sent by performGeneration
performGeneration(a) ==
  [model |-> "veo-3.1-fast-generate-preview",
   prompt |-> IF Falsy(a.prompt) THEN "Animate this scene naturally." ELSE a.prompt,
   imageBytes |-> a.imageBase64,
   mimeType |-> "image/png",
   numberOfVideos |-> 1,
   resolution |-> "1080p",
   aspectRatio |-> a.aspectRatio]


\* ------------------------------------------------------------ mergeImages
\* JS numbers are modelled as exact rationals [n, d], d > 0, in lowest terms;
\* IEEE-754 rounding of the products and quotients is not modelled.
RECURSIVE GCD(_, _)
GCD(a, b) == IF b = 0 THEN a ELSE GCD(b, a % b)

Abs(i) == IF i < 0 THEN -i ELSE i

Rat(n, d) ==
  LET s == IF d < 0 THEN -1 ELSE 1
      g == GCD(Abs(n), Abs(d))
  IN  [n |-> (s * n) \div g, d |-> (s * d) \div g]

RInt(i) == Rat(i, 1)

RMul(a, b) == Rat(a.n * b.n, a.d * b.d)

RDiv(a, b) == Rat(a.n * b.d, a.d * b.n)

RSub(a, b) == Rat(a.n * b.d - b.n * a.d, a.d * b.d)

RAdd(a, b) == Rat(a.n * b.d + b.n * a.d, a.d * b.d)

\* the literal 0.33 of line 79
BaseFraction == Rat(33, 100)

\* A base64 payload, described by what it decodes to.
Img(w, h) == [ok |-> TRUE, width |-> w, height |-> h]

Broken == [ok |-> FALSE, width |-> 0, height |-> 0]

NoImage == [ok |-> FALSE, width |-> -1, height |-> -1]

\* A decoded raster image has positive natural dimensions.
SourceImages == { Img(w, h) : w \in 1..MaxDim, h \in 1..MaxDim } \cup {Broken}

\* fgX, fgY and fgScale as passed by a caller, in hundredths; values outside
\* [0,1] and [0.3, 2.0] are included.
AnchorValues == { Rat(k, 100) : k \in {-50, 0, 25, 50, 100, 150} }

ScaleValues == { Rat(k, 100) : k \in {0, 30, 100, 200, 250} }

NoMergeArgs == [bg |-> NoImage, fg |-> NoImage, fgX |-> RInt(0), fgY |-> RInt(0), fgScale |-> RInt(0)]

NoCanvas == [width |-> 0, height |-> 0]

\* const fgAspect = fgImg.width / fgImg.height;
fgAspect(fgImg) == RDiv(RInt(fgImg.width), RInt(fgImg.height))

\* const baseWidth = bgImg.width * 0.33;
baseWidth(bgImg) == RMul(RInt(bgImg.width), BaseFraction)

\* const drawWidth = baseWidth * fgScale;
drawWidth(bgImg, fgScale) == RMul(baseWidth(bgImg), fgScale)

\* variant: the width is multiplied by the aspect ratio instead of divided
drawHeight_Multiplied(bgImg, fgImg, fgScale) == RMul(drawWidth(bgImg, fgScale), fgAspect(fgImg))

\* const drawHeight = drawWidth / fgAspect;
drawHeight(bgImg, fgImg, fgScale) == RDiv(drawWidth(bgImg, fgScale), fgAspect(fgImg))

\* variant: the anchor is taken as the top-left corner
posX_TopLeft(bgImg, fgX, fgScale) == RMul(RInt(bgImg.width), fgX)

\* const posX = (bgImg.width * fgX) - (drawWidth / 2);
posX(bgImg, fgX, fgScale) ==
  RSub(RMul(RInt(bgImg.width), fgX), RDiv(drawWidth(bgImg, fgScale), RInt(2)))

\* const posY = (bgImg.height * fgY) - (drawHeight / 2);
posY(bgImg, fgImg, fgY, fgScale) ==
  RSub(RMul(RInt(bgImg.height), fgY), RDiv(drawHeight(bgImg, fgImg, fgScale), RInt(2)))

\* variant: the canvas height is taken from the background width
NewCanvas_Square(bgImg) == [width |-> bgImg.width, height |-> bgImg.width]

\* canvas.width = bgImg.width; canvas.height = bgImg.height;
NewCanvas(bgImg) == [width |-> bgImg.width, height |-> bgImg.height]

\* ctx.drawImage(bgImg, 0, 0) followed by
\* ctx.drawImage(fgImg, posX, posY, drawWidth, drawHeight)
DrawCalls(a) ==
  << [img |-> "bg", x |-> RInt(0), y |-> RInt(0),
      w |-> RInt(a.bg.width), h |-> RInt(a.bg.height)],
     [img |-> "fg", x |-> posX(a.bg, a.fgX, a.fgScale),
      y |-> posY(a.bg, a.fg, a.fgY, a.fgScale),
      w |-> drawWidth(a.bg, a.fgScale),
      h |-> drawHeight(a.bg, a.fg, a.fgScale)] >>

\* ------------------------------------------------------------ wizard UI
\* A base64 image held in component state.  kind tells where it came from;
\* place and by identify the location image it is, or was made from (by is
\* the LocationFinder instance that obtained it); ok tells whether it
\* decodes.  NoBase64 stands for the initial '' / null.
Base64(kind, place, by, ok) == [kind |-> kind, place |-> place, by |-> by, ok |-> ok]

NoBase64 == Base64("none", <<>>, 0, FALSE)

\* Strings the UI splits are sequences of tokens.  A query is typed by the
\* user; a listed place is a line of the search result.
Queries == {<<>>, <<"pizza">>}

ListedPlaces == {<<"Rome">>, <<"Tokyo", "-", "Shibuya">>}

\* place.split(':')[0].split('-')[0].trim()
RECURSIVE CleanPlaceName(_)
CleanPlaceName(place) ==
  IF place = <<>> \/ Head(place) \in {":", "-"} THEN <<>>
  ELSE <<Head(place)>> \o CleanPlaceName(Tail(place))

\* Math.max / Math.min on rationals
RMax(a, b) == IF a.n * b.d >= b.n * a.d THEN a ELSE b

RMin(a, b) == IF a.n * b.d <= b.n * a.d THEN a ELSE b

\* variant: the pointer position is used as it is
Clamp01_None(x) == x

\* Math.max(0, Math.min(1, x))
Clamp01(x) == RMax(RInt(0), RMin(RInt(1), x))

\* (e.clientX - rect.left) / rect.width, (e.clientY - rect.top) / rect.height
\* for pointer positions left of / above, inside, and right of / below the box
PointerPositions ==
  { [x |-> Rat(-1, 2), y |-> Rat(3, 2)], [x |-> Rat(1, 4), y |-> Rat(3, 4)] }

\* values a range input with min="0.3" max="2.0" step="0.1" can report
SliderValues == {Rat(3, 10), RInt(2)}

\* what a mergeImages call does, by whether its sources decode and the
\* canvas has a 2d context: bgImg.onerror rejects, a null context rejects,
\* and a foreground that fails to decode fires no handler
MergeOutcome(bgOk, fgOk, ctx) ==
  IF ~bgOk THEN "rejects"
  ELSE IF ~fgOk THEN "pending"
  ELSE IF ~ctx THEN "rejects"
  ELSE "resolves"

\* an error whose message is a truthy non-string, with status 404
NonStringMessageError == Err("object", 404, 0, NONSTR, OTHERTEXT, UNDEF, 0, OTHERTEXT)

\* values generateVeoVideo rejects with
VeoRejections == {NullError, MissingResultError, KeySelectError, NonStringMessageError}

\* <Button isLoading=... disabled=...>: the control accepts clicks
ButtonEnabled(disabled, isLoading) == ~disabled /\ ~isLoading

\* files the user may pick: one that decodes and one that does not
UserFiles == {Base64("upload", <<>>, 0, TRUE), Base64("upload", <<>>, 0, FALSE)}

\* useState initial values of LocationFinder
LocationFinderInit ==
  [query |-> <<>>, isSearching |-> FALSE, resultText |-> "",
   suggestedPlaces |-> {}, isGeneratingImage |-> FALSE]

\* useState initial values of ImageEditor
ImageEditorInit ==
  [userImage |-> NoBase64, compositeImage |-> NoBase64, isProcessing |-> FALSE,
   fgPos |-> [x |-> Rat(1, 2), y |-> Rat(1, 2)], fgScale |-> RInt(1),
   isDragging |-> FALSE]

\* useState initial values of VideoAnimator
VideoAnimatorInit == [isGenerating |-> FALSE, videoUrl |-> UNDEF]

\* An asynchronous call a handler is waiting for: the capability, the
\* component instance whose handler made it, and its arguments.
Call(cap, inst, a, b, x, y, sc, place) ==
  [cap |-> cap, inst |-> inst, a |-> a, b |-> b, x |-> x, y |-> y, s |-> sc,
   place |-> place]

\* the last settlement a handler saw: whether the call failed, whether the
\* handler raised alert(), and whether an exception left the handler
Settle(cap, inst, failed, alerted, escaped, seq) ==
  [cap |-> cap, inst |-> inst, failed |-> failed, alerted |-> alerted,
   escaped |-> escaped, seq |-> seq]

NoSettle == Settle("none", 0, FALSE, FALSE, FALSE, 0)

VARIABLES
  pc,            \* position of the generateVeoVideo call
  aistudio,      \* window.aistudio is present
  args,          \* arguments of the call
  operation,     \* let operation
  error,         \* the value bound by catch (error)
  requests,      \* generateVideos requests issued, in order
  keySelections, \* number of openSelectKey invocations
  pollArgs,      \* handle passed to each getVideosOperation, in order
  observed,      \* handles tested by while (!operation.done), in order
  inflight,      \* remote calls issued and not yet settled
  result,        \* value the call resolved with
  thrown,        \* value the call rejected with
  log,           \* events of the call, in order
  failures,      \* rejections delivered to the call by its awaits, in order
  nextId,        \* identity of the next handle the service hands out
  mpc,           \* position of the mergeImages call
  margs,         \* arguments of the mergeImages call
  canvas,        \* the canvas element created by the call
  drawn,         \* drawImage calls made on the canvas context, in order
  mresult,       \* value the mergeImages promise settled with
  remote,        \* what the video service does with the operation
  currentStep,   \* App: the wizard step
  selectedLocationName,
  selectedLocationImage,
  finalCompositeImage,
  mounted,       \* instance of each step component now mounted (0: none)
  mounts,        \* number of component instances mounted so far
  lf,            \* state of the mounted LocationFinder
  ie,            \* state of the mounted ImageEditor
  va,            \* state of the mounted VideoAnimator
  pending,       \* asynchronous calls started by handlers and not settled
  lastSettle     \* what the handler did when a call of it last settled

veoVars == <<pc, aistudio, args, operation, error, requests, keySelections,
             pollArgs, observed, inflight, result, thrown, log, failures,
             nextId>>

mergeVars == <<mpc, margs, canvas, drawn, mresult>>

envVars == <<remote>>

uiVars == <<currentStep, selectedLocationName, selectedLocationImage,
            finalCompositeImage, mounted, mounts, lf, ie, va, pending, lastSettle>>

vars == <<veoVars, mergeVars, envVars, uiVars>>

InitVeo ==
  /\ pc = "idle"
  /\ aistudio \in BOOLEAN
  /\ args = NoArgs
  /\ operation = NoOperation
  /\ error = NoError
  /\ requests = <<>>
  /\ keySelections = 0
  /\ pollArgs = <<>>
  /\ observed = <<>>
  /\ inflight = [submit |-> 0, poll |-> 0, selectKey |-> 0]
  /\ result = UNDEF
  /\ thrown = NoError
  /\ log = <<>>
  /\ failures = <<>>
  /\ nextId = 1

InitMerge ==
  /\ mpc = "idle"
  /\ margs = NoMergeArgs
  /\ canvas = NoCanvas
  /\ drawn = <<>>
  /\ mresult = NoImage

\* App and its first child after the first render: step SEARCH, with a
\* LocationFinder mounted
InitUI ==
  /\ currentStep = "SEARCH"
  /\ selectedLocationName = <<>>
  /\ selectedLocationImage = NoBase64
  /\ finalCompositeImage = NoBase64
  /\ mounted = [lf |-> 1, ie |-> 0, va |-> 0]
  /\ mounts = 1
  /\ lf = LocationFinderInit
  /\ ie = ImageEditorInit
  /\ va = VideoAnimatorInit
  /\ pending = {}
  /\ lastSettle = NoSettle

Init ==
  /\ InitVeo
  /\ InitMerge
  /\ remote = "free"
  /\ InitUI

\* the call rejects with e
Reject(e) ==
  /\ pc' = "failed"
  /\ thrown' = e
  /\ result' = result

\* variant: the uri is used without the check of line 239
Continue_NoCheck(op) ==
  /\ operation' = op
  /\ observed' = Append(observed, op)
  /\ IF ~op.done
       THEN /\ pc' = "pollWait"
            /\ UNCHANGED <<result, thrown>>
       ELSE /\ pc' = "done"
            /\ result' = downloadUrl(videoUri(op))
            /\ thrown' = thrown

\* variant: do-while, the first handle is polled once whatever its flag
Continue_DoWhile(op) ==
  /\ operation' = op
  /\ observed' = Append(observed, op)
  /\ IF ~op.done \/ observed = <<>>
       THEN /\ pc' = "pollWait"
            /\ UNCHANGED <<result, thrown>>
       ELSE IF Falsy(videoUri(op))
         THEN Reject(MissingResultError)
         ELSE /\ pc' = "done"
              /\ result' = downloadUrl(videoUri(op))
              /\ thrown' = thrown

\* operation = <op>; then lines 233-243: the loop test and, once done, the
\* result extraction.
Continue(op) ==
  /\ operation' = op
  /\ observed' = Append(observed, op)
  /\ IF ~op.done
       THEN /\ pc' = "pollWait"
            /\ UNCHANGED <<result, thrown>>
       ELSE IF Falsy(videoUri(op))
         THEN Reject(MissingResultError)
         ELSE /\ pc' = "done"
              /\ result' = downloadUrl(videoUri(op))
              /\ thrown' = thrown

\* line 215: if (isNotFound && window.aistudio)
ShouldRecover(e) == isNotFound(e) = "true" /\ aistudio

\* generateVeoVideo(imageBase64, prompt, aspectRatio): runs up to the first
\* await, i.e. issues the first generateVideos request.
generateVeoVideo(imageBase64, prompt, aspectRatio) ==
  /\ pc = "idle"
  /\ args' = [imageBase64 |-> imageBase64, prompt |-> prompt, aspectRatio |-> aspectRatio]
  /\ requests' = Append(requests, performGeneration(args'))
  /\ inflight' = [inflight EXCEPT !.submit = @ + 1]
  /\ log' = Append(log, "submit")
  /\ pc' = "submitting"
  /\ UNCHANGED failures
  /\ UNCHANGED mergeVars
  /\ UNCHANGED envVars
  /\ UNCHANGED uiVars
  /\ UNCHANGED <<aistudio, operation, error, keySelections, pollArgs, observed,
                 result, thrown, nextId>>

\* line 196 resolves
SubmitReturns(done, response) ==
  /\ pc = "submitting"
  /\ inflight' = [inflight EXCEPT !.submit = @ - 1]
  /\ log' = Append(log, "submitOk")
  /\ nextId' = nextId + 1
  /\ Continue(Handle(nextId, done, response))
  /\ UNCHANGED failures
  /\ UNCHANGED mergeVars
  /\ UNCHANGED envVars
  /\ UNCHANGED uiVars
  /\ UNCHANGED <<aistudio, args, error, requests, keySelections, pollArgs>>

\* line 196 rejects: the catch block, lines 197-228, up to its first await
SubmitFails(e) ==
  /\ pc = "submitting"
  /\ error' = e
  /\ inflight' = [inflight EXCEPT !.submit = @ - 1, !.selectKey = IF isNotFound(e) # "TypeError" /\ ShouldRecover(e) THEN @ + 1 ELSE @]
  /\ IF isNotFound(e) = "TypeError"
       THEN /\ Reject(TypeErrorValue)
            /\ log' = Append(log, "submitFail")
            /\ UNCHANGED keySelections
       ELSE IF ShouldRecover(e)
         THEN /\ keySelections' = keySelections + 1
              /\ log' = log \o <<"submitFail", "openSelectKey">>
              /\ pc' = "selectingKey"
              /\ UNCHANGED <<result, thrown>>
         ELSE /\ Reject(e)
              /\ log' = Append(log, "submitFail")
              /\ UNCHANGED keySelections
  /\ failures' = Append(failures, e)
  /\ UNCHANGED mergeVars
  /\ UNCHANGED envVars
  /\ UNCHANGED uiVars
  /\ UNCHANGED <<aistudio, args, operation, requests, pollArgs, observed, nextId>>

\* variant: the retry is issued as soon as key-selection resolves, without
\* the settle delay
KeySelected_NoDelay ==
  /\ pc = "selectingKey"
  /\ inflight' = [inflight EXCEPT !.selectKey = @ - 1, !.submit = @ + 1]
  /\ requests' = Append(requests, performGeneration(args))
  /\ log' = log \o <<"keySelected", "submit">>
  /\ pc' = "retrying"
  /\ UNCHANGED failures
  /\ UNCHANGED mergeVars
  /\ UNCHANGED envVars
  /\ UNCHANGED uiVars
  /\ UNCHANGED <<aistudio, args, operation, error, keySelections,
                 pollArgs, observed, result, thrown, nextId>>

\* line 218 resolves; line 221 starts the 1000 ms timer
KeySelected ==
  /\ pc = "selectingKey"
  /\ inflight' = [inflight EXCEPT !.selectKey = @ - 1]
  /\ log' = Append(log, "keySelected")
  /\ pc' = "settleWait"
  /\ UNCHANGED failures
  /\ UNCHANGED mergeVars
  /\ UNCHANGED envVars
  /\ UNCHANGED uiVars
  /\ UNCHANGED <<aistudio, args, operation, error, requests, keySelections,
                 pollArgs, observed, result, thrown, nextId>>

\* line 218 rejects: the failure leaves the catch block
KeySelectFails ==
  /\ pc = "selectingKey"
  /\ inflight' = [inflight EXCEPT !.selectKey = @ - 1]
  /\ log' = Append(log, "keySelectFail")
  /\ Reject(KeySelectError)
  /\ failures' = Append(failures, KeySelectError)
  /\ UNCHANGED mergeVars
  /\ UNCHANGED envVars
  /\ UNCHANGED uiVars
  /\ UNCHANGED <<aistudio, args, operation, error, requests, keySelections,
                 pollArgs, observed, nextId>>

\* the 1000 ms timer fires; line 224 issues the retry
SettleDelayElapsed ==
  /\ pc = "settleWait"
  /\ requests' = Append(requests, performGeneration(args))
  /\ inflight' = [inflight EXCEPT !.submit = @ + 1]
  /\ log' = log \o <<"delay1000", "submit">>
  /\ pc' = "retrying"
  /\ UNCHANGED failures
  /\ UNCHANGED mergeVars
  /\ UNCHANGED envVars
  /\ UNCHANGED uiVars
  /\ UNCHANGED <<aistudio, args, operation, error, keySelections, pollArgs,
                 observed, result, thrown, nextId>>

\* line 224 resolves
RetryReturns(done, response) ==
  /\ pc = "retrying"
  /\ inflight' = [inflight EXCEPT !.submit = @ - 1]
  /\ log' = Append(log, "submitOk")
  /\ nextId' = nextId + 1
  /\ Continue(Handle(nextId, done, response))
  /\ UNCHANGED failures
  /\ UNCHANGED mergeVars
  /\ UNCHANGED envVars
  /\ UNCHANGED uiVars
  /\ UNCHANGED <<aistudio, args, error, requests, keySelections, pollArgs>>

\* variant: a failed retry is classified again and re-enters recovery
RetryFails_Recover(e) ==
  /\ pc = "retrying"
  /\ inflight' = [inflight EXCEPT !.submit = @ - 1]
  /\ failures' = Append(failures, e)
  /\ IF isNotFound(e) = "true" /\ aistudio
       THEN /\ keySelections' = keySelections + 1
            /\ log' = log \o <<"submitFail", "openSelectKey">>
            /\ pc' = "selectingKey"
            /\ UNCHANGED <<result, thrown>>
       ELSE /\ Reject(e)
            /\ log' = Append(log, "submitFail")
            /\ UNCHANGED keySelections
  /\ UNCHANGED mergeVars
  /\ UNCHANGED envVars
  /\ UNCHANGED uiVars
  /\ UNCHANGED <<aistudio, args, operation, error, requests, pollArgs, observed, nextId>>

\* variant: a failed retry rethrows the failure of the first submit
RetryFails_ThrowsFirst(e) ==
  /\ pc = "retrying"
  /\ inflight' = [inflight EXCEPT !.submit = @ - 1]
  /\ log' = Append(log, "submitFail")
  /\ failures' = Append(failures, e)
  /\ Reject(error)
  /\ UNCHANGED mergeVars
  /\ UNCHANGED envVars
  /\ UNCHANGED uiVars
  /\ UNCHANGED <<aistudio, args, operation, error, requests, keySelections,
                 pollArgs, observed, nextId>>

\* line 224 rejects inside the catch block: nothing catches it
RetryFails(e) ==
  /\ pc = "retrying"
  /\ inflight' = [inflight EXCEPT !.submit = @ - 1]
  /\ log' = Append(log, "submitFail")
  /\ Reject(e)
  /\ failures' = Append(failures, e)
  /\ UNCHANGED mergeVars
  /\ UNCHANGED envVars
  /\ UNCHANGED uiVars
  /\ UNCHANGED <<aistudio, args, operation, error, requests, keySelections,
                 pollArgs, observed, nextId>>

\* variant: the poll is driven by a repeating timer that does not wait for
\* the previous poll to return
PollDelayElapsed_Interval ==
  /\ pc = "pollWait"
  /\ Len(pollArgs) < MaxPolls
  /\ pollArgs' = Append(pollArgs, operation)
  /\ inflight' = [inflight EXCEPT !.poll = @ + 1]
  /\ log' = log \o <<"delay5000", "poll">>
  /\ pc' = IF Len(pollArgs) = 0 THEN "pollWait" ELSE "polling"
  /\ UNCHANGED failures
  /\ UNCHANGED mergeVars
  /\ UNCHANGED envVars
  /\ UNCHANGED uiVars
  /\ UNCHANGED <<aistudio, args, operation, error, requests, keySelections,
                 observed, result, thrown, nextId>>

\* variant: the loop gives up with a timeout failure after two polls
PollDelayElapsed_Timeout ==
  /\ pc = "pollWait"
  /\ Len(pollArgs) < MaxPolls
  /\ IF Len(pollArgs) >= 2
       THEN /\ Reject(MissingResultError)
            /\ log' = Append(log, "timeout")
            /\ UNCHANGED <<pollArgs, inflight>>
       ELSE /\ pollArgs' = Append(pollArgs, operation)
            /\ inflight' = [inflight EXCEPT !.poll = @ + 1]
            /\ log' = log \o <<"delay5000", "poll">>
            /\ pc' = "polling"
            /\ UNCHANGED <<result, thrown>>
  /\ UNCHANGED failures
  /\ UNCHANGED mergeVars
  /\ UNCHANGED envVars
  /\ UNCHANGED uiVars
  /\ UNCHANGED <<aistudio, args, operation, error, requests, keySelections,
                 observed, nextId>>

\* the 5000 ms timer of line 234 fires; line 235 issues the poll
PollDelayElapsed ==
  /\ pc = "pollWait"
  /\ Len(pollArgs) < MaxPolls
  /\ pollArgs' = Append(pollArgs, operation)
  /\ inflight' = [inflight EXCEPT !.poll = @ + 1]
  /\ log' = log \o <<"delay5000", "poll">>
  /\ pc' = "polling"
  /\ UNCHANGED failures
  /\ UNCHANGED mergeVars
  /\ UNCHANGED envVars
  /\ UNCHANGED uiVars
  /\ UNCHANGED <<aistudio, args, operation, error, requests, keySelections,
                 observed, result, thrown, nextId>>

\* line 235 resolves
PollReturns(done, response) ==
  /\ pc = "polling"
  /\ inflight' = [inflight EXCEPT !.poll = @ - 1]
  /\ log' = Append(log, "pollOk")
  /\ nextId' = nextId + 1
  /\ Continue(Handle(nextId, done, response))
  /\ UNCHANGED failures
  /\ UNCHANGED mergeVars
  /\ UNCHANGED envVars
  /\ UNCHANGED uiVars
  /\ UNCHANGED <<aistudio, args, error, requests, keySelections, pollArgs>>

\* variant: a failed poll goes through the classifier of the catch block
PollFails_Recover(e) ==
  /\ pc = "polling"
  /\ inflight' = [inflight EXCEPT !.poll = @ - 1,
                                  !.selectKey = IF ShouldRecover(e) THEN @ + 1 ELSE @]
  /\ IF ShouldRecover(e)
       THEN /\ keySelections' = keySelections + 1
            /\ log' = log \o <<"pollFail", "openSelectKey">>
            /\ pc' = "selectingKey"
            /\ UNCHANGED <<result, thrown>>
       ELSE /\ Reject(e)
            /\ log' = Append(log, "pollFail")
            /\ UNCHANGED keySelections
  /\ failures' = Append(failures, e)
  /\ UNCHANGED mergeVars
  /\ UNCHANGED envVars
  /\ UNCHANGED uiVars
  /\ UNCHANGED <<aistudio, args, operation, error, requests, pollArgs, observed, nextId>>

\* line 235 rejects: outside the try block, nothing catches it
PollFails(e) ==
  /\ pc = "polling"
  /\ inflight' = [inflight EXCEPT !.poll = @ - 1]
  /\ log' = Append(log, "pollFail")
  /\ Reject(e)
  /\ failures' = Append(failures, e)
  /\ UNCHANGED mergeVars
  /\ UNCHANGED envVars
  /\ UNCHANGED uiVars
  /\ UNCHANGED <<aistudio, args, operation, error, requests, keySelections,
                 pollArgs, observed, nextId>>

\* what the service may answer: a pending handle carries no response
Answers == ({FALSE} \X {"<no response>"}) \cup ({TRUE} \X Responses)

Next ==
  \/ \E i \in Images, p \in Prompts, a \in AspectRatios : generateVeoVideo(i, p, a)
  \/ \E r \in Answers : SubmitReturns(r[1], r[2])
  \/ /\ pc = "submitting"
     /\ \E e \in SubmitErrors : SubmitFails(e)
  \/ KeySelected
  \/ KeySelectFails
  \/ SettleDelayElapsed
  \/ \E r \in Answers : RetryReturns(r[1], r[2])
  \/ \E e \in OpaqueErrors : RetryFails(e)
  \/ PollDelayElapsed
  \/ \E r \in Answers : PollReturns(r[1], r[2])
  \/ \E e \in OpaqueErrors : PollFails(e)

Spec == Init /\ [][Next]_vars

\* ------------------------------------------- generateVeoVideo, liveness
\* The service either completes the operation (at the latest when the last
\* poll the model allows returns) or never completes it and answers every
\* poll with done = FALSE.
InitLive ==
  /\ InitVeo
  /\ InitMerge
  /\ remote \in {"completes", "never"}
  /\ InitUI

SubmitAnswers == IF remote = "never" THEN {<<FALSE, "<no response>">>} ELSE Answers

PollAnswers ==
  IF remote = "never" THEN {<<FALSE, "<no response>">>}
  ELSE IF Len(pollArgs) = MaxPolls THEN {TRUE} \X Responses
  ELSE Answers

\* the continuations of the call: every awaited promise settles, every
\* timer fires
LiveStep ==
  \/ \E r \in SubmitAnswers : SubmitReturns(r[1], r[2])
  \/ \E e \in OpaqueErrors : SubmitFails(e)
  \/ KeySelected
  \/ KeySelectFails
  \/ SettleDelayElapsed
  \/ \E r \in SubmitAnswers : RetryReturns(r[1], r[2])
  \/ \E e \in OpaqueErrors : RetryFails(e)
  \/ PollDelayElapsed
  \/ \E r \in PollAnswers : PollReturns(r[1], r[2])
  \/ remote # "never" /\ \E e \in OpaqueErrors : PollFails(e)

NextLive ==
  \/ \E i \in Images, p \in Prompts, a \in AspectRatios : generateVeoVideo(i, p, a)
  \/ LiveStep

SpecLive == InitLive /\ [][NextLive]_vars /\ WF_vars(LiveStep)

\* mergeImages(bg, fg, fgX, fgY, fgScale): the promise executor; line 96
\* starts decoding the background.
mergeImages(bgBase64, fgBase64, fgX, fgY, fgScale) ==
  /\ mpc = "idle"
  /\ margs' = [bg |-> bgBase64, fg |-> fgBase64, fgX |-> fgX, fgY |-> fgY, fgScale |-> fgScale]
  /\ mpc' = "bgLoading"
  /\ UNCHANGED <<canvas, drawn, mresult>>
  /\ UNCHANGED veoVars
  /\ UNCHANGED envVars
  /\ UNCHANGED uiVars

\* bgImg.onload: installs fgImg.onload and starts decoding the foreground
bgOnload ==
  /\ mpc = "bgLoading"
  /\ margs.bg.ok
  /\ mpc' = "fgLoading"
  /\ UNCHANGED <<margs, canvas, drawn, mresult>>
  /\ UNCHANGED veoVars
  /\ UNCHANGED envVars
  /\ UNCHANGED uiVars

\* bgImg.onerror = reject
bgOnerror ==
  /\ mpc = "bgLoading"
  /\ ~margs.bg.ok
  /\ mpc' = "rejected"
  /\ UNCHANGED <<margs, canvas, drawn, mresult>>
  /\ UNCHANGED veoVars
  /\ UNCHANGED envVars
  /\ UNCHANGED uiVars

\* fgImg.onload, lines 62-93; getContext('2d') may return null
fgOnload(ctx) ==
  /\ mpc = "fgLoading"
  /\ margs.fg.ok
  /\ canvas' = NewCanvas(margs.bg)
  /\ IF ~ctx
       THEN /\ mpc' = "rejected"
            /\ UNCHANGED <<drawn, mresult>>
       ELSE /\ drawn' = DrawCalls(margs)
            /\ mresult' = Img(canvas'.width, canvas'.height)
            /\ mpc' = "resolved"
  /\ UNCHANGED margs
  /\ UNCHANGED veoVars
  /\ UNCHANGED envVars
  /\ UNCHANGED uiVars

\* the foreground fails to decode: fgImg has no onerror handler, so the
\* error event is dropped and the promise stays pending
fgDecodeFails ==
  /\ mpc = "fgLoading"
  /\ ~margs.fg.ok
  /\ mpc' = "fgFailed"
  /\ UNCHANGED <<margs, canvas, drawn, mresult>>
  /\ UNCHANGED veoVars
  /\ UNCHANGED envVars
  /\ UNCHANGED uiVars

NextMerge ==
  \/ /\ mpc = "idle"
     /\ \E b \in SourceImages, f \in SourceImages, x \in AnchorValues,
           y \in AnchorValues, s \in ScaleValues : mergeImages(b, f, x, y, s)
  \/ bgOnload
  \/ bgOnerror
  \/ \E ctx \in BOOLEAN : fgOnload(ctx)
  \/ fgDecodeFails

SpecMerge == Init /\ [][NextMerge]_vars

\* ------------------------------------------------------------- App steps
\* setCurrentStep(step) and the render that follows: the component of the
\* step that was left unmounts and loses its state, the component of the
\* step entered mounts with its initial state.  Setting the step already
\* shown remounts nothing.
GoTo(step) ==
  /\ currentStep' = step
  /\ IF step = currentStep
       THEN UNCHANGED <<mounted, mounts>>
       ELSE /\ mounts < MaxMounts
            /\ mounts' = mounts + 1
            /\ mounted' = [lf |-> IF step = "SEARCH" THEN mounts + 1 ELSE 0,
                           ie |-> IF step = "COMPOSITE" THEN mounts + 1 ELSE 0,
                           va |-> IF step = "ANIMATE" THEN mounts + 1 ELSE 0]

Stay == UNCHANGED <<currentStep, mounted, mounts>>

\* a handler's call settles: it leaves the set of outstanding calls
Settled(op, failed, alerted, escaped) ==
  lastSettle' = Settle(op.cap, op.inst, failed, alerted, escaped, 1 - lastSettle.seq)

\* --------------------------------------------------------- LocationFinder
\* onChange={(e) => setQuery(e.target.value)}
setQuery(q) ==
  /\ currentStep = "SEARCH"
  /\ q # lf.query
  /\ lf' = [lf EXCEPT !.query = q]
  /\ Stay
  /\ UNCHANGED <<selectedLocationName, selectedLocationImage, finalCompositeImage,
                 ie, va, pending, lastSettle>>
  /\ UNCHANGED <<veoVars, mergeVars, envVars>>

\* handleSearch up to its await: the form is submitted through the Search
\* button; an empty query returns at once
handleSearch ==
  /\ currentStep = "SEARCH"
  /\ ButtonEnabled(FALSE, lf.isSearching)
  /\ lf.query # <<>>
  /\ lf' = [lf EXCEPT !.isSearching = TRUE, !.suggestedPlaces = {}]
  /\ pending' = pending \cup
       {Call("search", mounted.lf, NoBase64, NoBase64, RInt(0), RInt(0), RInt(0), lf.query)}
  /\ Stay
  /\ UNCHANGED <<selectedLocationName, selectedLocationImage, finalCompositeImage,
                 ie, va, lastSettle>>
  /\ UNCHANGED <<veoVars, mergeVars, envVars>>

\* searchLocations resolves: the result text is stored and the places are
\* the list parsed from it, or the query itself when no list is found
SearchReturns(op, places) ==
  /\ op \in pending
  /\ op.cap = "search"
  /\ pending' = pending \ {op}
  /\ lf' = IF op.inst = mounted.lf
             THEN [lf EXCEPT !.resultText = "text",
                             !.suggestedPlaces = IF places # {} THEN places ELSE {op.place},
                             !.isSearching = FALSE]
             ELSE lf
  /\ Settled(op, FALSE, FALSE, FALSE)
  /\ Stay
  /\ UNCHANGED <<selectedLocationName, selectedLocationImage, finalCompositeImage, ie, va>>
  /\ UNCHANGED <<veoVars, mergeVars, envVars>>

\* searchLocations rejects: catch alerts, finally clears the flag
SearchFails(op) ==
  /\ op \in pending
  /\ op.cap = "search"
  /\ pending' = pending \ {op}
  /\ lf' = IF op.inst = mounted.lf THEN [lf EXCEPT !.isSearching = FALSE] ELSE lf
  /\ Settled(op, TRUE, TRUE, FALSE)
  /\ Stay
  /\ UNCHANGED <<selectedLocationName, selectedLocationImage, finalCompositeImage, ie, va>>
  /\ UNCHANGED <<veoVars, mergeVars, envVars>>

\* handleSelectPlace up to its await; the place buttons are disabled while
\* isGeneratingImage
handleSelectPlace(place) ==
  /\ currentStep = "SEARCH"
  /\ place \in lf.suggestedPlaces
  /\ ~lf.isGeneratingImage
  /\ lf' = [lf EXCEPT !.isGeneratingImage = TRUE]
  /\ pending' = pending \cup
       {Call("locimg", mounted.lf, NoBase64, NoBase64, RInt(0), RInt(0), RInt(0),
             CleanPlaceName(place))}
  /\ Stay
  /\ UNCHANGED <<selectedLocationName, selectedLocationImage, finalCompositeImage,
                 ie, va, lastSettle>>
  /\ UNCHANGED <<veoVars, mergeVars, envVars>>

\* generateLocationImage resolves: onLocationSelected (App.handleLocationSelected)
\* stores name and image and sets the step to COMPOSITE
LocImageReturns(op, ok) ==
  /\ op \in pending
  /\ op.cap = "locimg"
  /\ pending' = pending \ {op}
  /\ selectedLocationName' = op.place
  /\ selectedLocationImage' = Base64("location", op.place, op.inst, ok)
  /\ GoTo("COMPOSITE")
  /\ IF currentStep = "COMPOSITE"
       THEN UNCHANGED <<lf, ie, va>>
       ELSE lf' = LocationFinderInit /\ ie' = ImageEditorInit /\ va' = VideoAnimatorInit
  /\ Settled(op, FALSE, FALSE, FALSE)
  /\ UNCHANGED finalCompositeImage
  /\ UNCHANGED <<veoVars, mergeVars, envVars>>

\* generateLocationImage rejects: catch alerts, finally clears the flag
LocImageFails(op) ==
  /\ op \in pending
  /\ op.cap = "locimg"
  /\ pending' = pending \ {op}
  /\ lf' = IF op.inst = mounted.lf THEN [lf EXCEPT !.isGeneratingImage = FALSE] ELSE lf
  /\ Settled(op, TRUE, TRUE, FALSE)
  /\ Stay
  /\ UNCHANGED <<selectedLocationName, selectedLocationImage, finalCompositeImage, ie, va>>
  /\ UNCHANGED <<veoVars, mergeVars, envVars>>

\* ------------------------------------------------------------ ImageEditor
\* handleFileChange: the picked file is read and becomes the user image;
\* position and scale are reset
handleFileChange(file) ==
  /\ currentStep = "COMPOSITE"
  /\ ie' = [ie EXCEPT !.userImage = file,
                      !.fgPos = [x |-> Rat(1, 2), y |-> Rat(1, 2)],
                      !.fgScale = RInt(1)]
  /\ ie' # ie
  /\ Stay
  /\ UNCHANGED <<selectedLocationName, selectedLocationImage, finalCompositeImage,
                 lf, va, pending, lastSettle>>
  /\ UNCHANGED <<veoVars, mergeVars, envVars>>

\* handleComposerMouseDown, on the foreground layer shown once a user image
\* is present
handleComposerMouseDown ==
  /\ currentStep = "COMPOSITE"
  /\ ie.userImage # NoBase64
  /\ ~ie.isDragging
  /\ ie' = [ie EXCEPT !.isDragging = TRUE]
  /\ Stay
  /\ UNCHANGED <<selectedLocationName, selectedLocationImage, finalCompositeImage,
                 lf, va, pending, lastSettle>>
  /\ UNCHANGED <<veoVars, mergeVars, envVars>>

\* handleComposerMouseMove with the pointer at p, relative to the box
handleComposerMouseMove(p) ==
  /\ currentStep = "COMPOSITE"
  /\ ie.isDragging
  /\ ie' = [ie EXCEPT !.fgPos = [x |-> Clamp01(p.x), y |-> Clamp01(p.y)]]
  /\ ie' # ie
  /\ Stay
  /\ UNCHANGED <<selectedLocationName, selectedLocationImage, finalCompositeImage,
                 lf, va, pending, lastSettle>>
  /\ UNCHANGED <<veoVars, mergeVars, envVars>>

\* handleComposerMouseUp: mouse up anywhere in the editor, or the pointer
\* leaving the box
handleComposerMouseUp ==
  /\ currentStep = "COMPOSITE"
  /\ ie.isDragging
  /\ ie' = [ie EXCEPT !.isDragging = FALSE]
  /\ Stay
  /\ UNCHANGED <<selectedLocationName, selectedLocationImage, finalCompositeImage,
                 lf, va, pending, lastSettle>>
  /\ UNCHANGED <<veoVars, mergeVars, envVars>>

\* onChange={(e) => setFgScale(parseFloat(e.target.value))} of the slider
\* shown once a user image is present
setFgScale(v) ==
  /\ currentStep = "COMPOSITE"
  /\ ie.userImage # NoBase64
  /\ v # ie.fgScale
  /\ ie' = [ie EXCEPT !.fgScale = v]
  /\ Stay
  /\ UNCHANGED <<selectedLocationName, selectedLocationImage, finalCompositeImage,
                 lf, va, pending, lastSettle>>
  /\ UNCHANGED <<veoVars, mergeVars, envVars>>

\* variant: every action merges the location image and the user image
handleAction_AlwaysMerge ==
  /\ currentStep = "COMPOSITE"
  /\ ButtonEnabled(ie.userImage = NoBase64 \/ ie.isProcessing, ie.isProcessing)
  /\ ie' = [ie EXCEPT !.isProcessing = TRUE]
  /\ pending' = pending \cup
       { Call("merge", mounted.ie, selectedLocationImage, ie.userImage,
              ie.fgPos.x, ie.fgPos.y, ie.fgScale, <<>>) }
  /\ Stay
  /\ UNCHANGED <<selectedLocationName, selectedLocationImage, finalCompositeImage,
                 lf, va, lastSettle>>
  /\ UNCHANGED <<veoVars, mergeVars, envVars>>

\* handleAction up to its first await: without a composite it merges the
\* location image and the user image, with a composite it edits the composite
handleAction ==
  /\ currentStep = "COMPOSITE"
  /\ ButtonEnabled(ie.userImage = NoBase64 \/ ie.isProcessing, ie.isProcessing)
  /\ ie' = [ie EXCEPT !.isProcessing = TRUE]
  /\ pending' = pending \cup
       { IF ie.compositeImage = NoBase64
           THEN Call("merge", mounted.ie, selectedLocationImage, ie.userImage,
                     ie.fgPos.x, ie.fgPos.y, ie.fgScale, <<>>)
           ELSE Call("edit", mounted.ie, ie.compositeImage, NoBase64,
                     RInt(0), RInt(0), RInt(0), <<>>) }
  /\ Stay
  /\ UNCHANGED <<selectedLocationName, selectedLocationImage, finalCompositeImage,
                 lf, va, lastSettle>>
  /\ UNCHANGED <<veoVars, mergeVars, envVars>>

\* mergeImages resolves; handleAction goes on to editImage(mergedBase64, ...)
MergeResolves(op) ==
  /\ op \in pending
  /\ op.cap = "merge"
  /\ \E ctx \in BOOLEAN : MergeOutcome(op.a.ok, op.b.ok, ctx) = "resolves"
  /\ pending' = (pending \ {op}) \cup
       {Call("edit", op.inst, Base64("merged", op.a.place, op.a.by, TRUE), NoBase64,
             RInt(0), RInt(0), RInt(0), <<>>)}
  /\ Stay
  /\ UNCHANGED <<selectedLocationName, selectedLocationImage, finalCompositeImage,
                 lf, ie, va, lastSettle>>
  /\ UNCHANGED <<veoVars, mergeVars, envVars>>

\* mergeImages rejects: catch alerts, finally clears the flag
MergeRejects(op) ==
  /\ op \in pending
  /\ op.cap = "merge"
  /\ \E ctx \in BOOLEAN : MergeOutcome(op.a.ok, op.b.ok, ctx) = "rejects"
  /\ pending' = pending \ {op}
  /\ ie' = IF op.inst = mounted.ie THEN [ie EXCEPT !.isProcessing = FALSE] ELSE ie
  /\ Settled(op, TRUE, TRUE, FALSE)
  /\ Stay
  /\ UNCHANGED <<selectedLocationName, selectedLocationImage, finalCompositeImage, lf, va>>
  /\ UNCHANGED <<veoVars, mergeVars, envVars>>

\* variant: the result is stored whichever editor instance is mounted
EditReturns_AnyInstance(op) ==
  /\ op \in pending
  /\ op.cap = "edit"
  /\ pending' = pending \ {op}
  /\ ie' = IF mounted.ie # 0
             THEN [ie EXCEPT !.compositeImage = Base64("edited", op.a.place, op.a.by, TRUE),
                             !.isProcessing = FALSE]
             ELSE ie
  /\ Settled(op, FALSE, FALSE, FALSE)
  /\ Stay
  /\ UNCHANGED <<selectedLocationName, selectedLocationImage, finalCompositeImage, lf, va>>
  /\ UNCHANGED <<veoVars, mergeVars, envVars>>

\* editImage resolves: setCompositeImage(result), finally clears the flag;
\* state setters of an unmounted instance have no effect
EditReturns(op) ==
  /\ op \in pending
  /\ op.cap = "edit"
  /\ pending' = pending \ {op}
  /\ ie' = IF op.inst = mounted.ie
             THEN [ie EXCEPT !.compositeImage = Base64("edited", op.a.place, op.a.by, TRUE),
                             !.isProcessing = FALSE]
             ELSE ie
  /\ Settled(op, FALSE, FALSE, FALSE)
  /\ Stay
  /\ UNCHANGED <<selectedLocationName, selectedLocationImage, finalCompositeImage, lf, va>>
  /\ UNCHANGED <<veoVars, mergeVars, envVars>>

\* editImage rejects: catch alerts, finally clears the flag
EditFails(op) ==
  /\ op \in pending
  /\ op.cap = "edit"
  /\ pending' = pending \ {op}
  /\ ie' = IF op.inst = mounted.ie THEN [ie EXCEPT !.isProcessing = FALSE] ELSE ie
  /\ Settled(op, TRUE, TRUE, FALSE)
  /\ Stay
  /\ UNCHANGED <<selectedLocationName, selectedLocationImage, finalCompositeImage, lf, va>>
  /\ UNCHANGED <<veoVars, mergeVars, envVars>>

\* "Next: Animate": onComplete(compositeImage), App.handleCompositionComplete
NextAnimate ==
  /\ currentStep = "COMPOSITE"
  /\ ie.compositeImage # NoBase64
  /\ finalCompositeImage' = ie.compositeImage
  /\ GoTo("ANIMATE")
  /\ lf' = LocationFinderInit /\ ie' = ImageEditorInit /\ va' = VideoAnimatorInit
  /\ UNCHANGED <<selectedLocationName, selectedLocationImage, pending, lastSettle>>
  /\ UNCHANGED <<veoVars, mergeVars, envVars>>

\* "Back to Search": onBack={() => setCurrentStep(AppStep.SEARCH)}
BackToSearch ==
  /\ currentStep = "COMPOSITE"
  /\ GoTo("SEARCH")
  /\ lf' = LocationFinderInit /\ ie' = ImageEditorInit /\ va' = VideoAnimatorInit
  /\ UNCHANGED <<selectedLocationName, selectedLocationImage, finalCompositeImage,
                 pending, lastSettle>>
  /\ UNCHANGED <<veoVars, mergeVars, envVars>>

\* ---------------------------------------------------------- VideoAnimator
\* handleGenerate up to its await
handleGenerate ==
  /\ currentStep = "ANIMATE"
  /\ ButtonEnabled(FALSE, va.isGenerating)
  /\ va' = [va EXCEPT !.isGenerating = TRUE]
  /\ pending' = pending \cup
       {Call("video", mounted.va, finalCompositeImage, NoBase64,
             RInt(0), RInt(0), RInt(0), <<>>)}
  /\ Stay
  /\ UNCHANGED <<selectedLocationName, selectedLocationImage, finalCompositeImage,
                 lf, ie, lastSettle>>
  /\ UNCHANGED <<veoVars, mergeVars, envVars>>

\* generateVeoVideo resolves: setVideoUrl(url), finally clears the flag
VideoResolves(op) ==
  /\ op \in pending
  /\ op.cap = "video"
  /\ pending' = pending \ {op}
  /\ va' = IF op.inst = mounted.va
             THEN [va EXCEPT !.videoUrl = "url", !.isGenerating = FALSE]
             ELSE va
  /\ Settled(op, FALSE, FALSE, FALSE)
  /\ Stay
  /\ UNCHANGED <<selectedLocationName, selectedLocationImage, finalCompositeImage, lf, ie>>
  /\ UNCHANGED <<veoVars, mergeVars, envVars>>

\* const msg = error?.message || "Unknown error";
AlertMessage(e) ==
  IF e.kind \in {"null", "undefined"} \/ Falsy(e.message) THEN "Unknown error"
  ELSE e.message

\* generateVeoVideo rejects with e: catch computes msg and calls
\* msg.includes("select"), which raises a TypeError when msg is not a
\* string; finally clears the flag either way
VideoRejects(op, e) ==
  /\ op \in pending
  /\ op.cap = "video"
  /\ pending' = pending \ {op}
  /\ va' = IF op.inst = mounted.va THEN [va EXCEPT !.isGenerating = FALSE] ELSE va
  /\ IF AlertMessage(e) = NONSTR
       THEN Settled(op, TRUE, FALSE, TRUE)
       ELSE Settled(op, TRUE, TRUE, FALSE)
  /\ Stay
  /\ UNCHANGED <<selectedLocationName, selectedLocationImage, finalCompositeImage, lf, ie>>
  /\ UNCHANGED <<veoVars, mergeVars, envVars>>

\* "Back to Editing": onBack={() => setCurrentStep(AppStep.COMPOSITE)}
BackToEditing ==
  /\ currentStep = "ANIMATE"
  /\ GoTo("COMPOSITE")
  /\ lf' = LocationFinderInit /\ ie' = ImageEditorInit /\ va' = VideoAnimatorInit
  /\ UNCHANGED <<selectedLocationName, selectedLocationImage, finalCompositeImage,
                 pending, lastSettle>>
  /\ UNCHANGED <<veoVars, mergeVars, envVars>>

\* ------------------------------------------------------------- the wizard
\* the calls of the handlers settle
SettleStep ==
  \/ \E op \in pending, places \in {{}, ListedPlaces} : SearchReturns(op, places)
  \/ \E op \in pending : SearchFails(op)
  \/ \E op \in pending, ok \in BOOLEAN : LocImageReturns(op, ok)
  \/ \E op \in pending : LocImageFails(op)
  \/ \E op \in pending : MergeResolves(op)
  \/ \E op \in pending : MergeRejects(op)
  \/ \E op \in pending : EditReturns(op)
  \/ \E op \in pending : EditFails(op)
  \/ \E op \in pending : VideoResolves(op)
  \/ \E op \in pending, e \in VeoRejections : VideoRejects(op, e)

\* The wizard across its steps.  The composer's pointer and slider events
\* are left to SpecEditor: the placement stays at its initial value here.
NextWizard ==
  \/ \E q \in Queries : setQuery(q)
  \/ handleSearch
  \/ \E place \in ListedPlaces \cup Queries : handleSelectPlace(place)
  \/ \E file \in UserFiles : handleFileChange(file)
  \/ handleAction
  \/ NextAnimate
  \/ BackToSearch
  \/ handleGenerate
  \/ BackToEditing
  \/ SettleStep

\* the wizard does not read window.aistudio
InitWizard == Init /\ aistudio = TRUE

SpecWizard == InitWizard /\ [][NextWizard]_vars

\* One session up to and inside the first ImageEditor, with every composer
\* event.
NextEditor ==
  \/ \E q \in Queries : setQuery(q)
  \/ handleSearch
  \/ \E op \in pending, places \in {{}, ListedPlaces} : SearchReturns(op, places)
  \/ \E op \in pending : SearchFails(op)
  \/ \E place \in ListedPlaces \cup Queries : handleSelectPlace(place)
  \/ \E op \in pending, ok \in BOOLEAN : LocImageReturns(op, ok)
  \/ \E op \in pending : LocImageFails(op)
  \/ \E file \in UserFiles : handleFileChange(file)
  \/ handleComposerMouseDown
  \/ \E p \in PointerPositions : handleComposerMouseMove(p)
  \/ handleComposerMouseUp
  \/ \E v \in SliderValues : setFgScale(v)
  \/ handleAction
  \/ \E op \in pending : MergeResolves(op)
  \/ \E op \in pending : MergeRejects(op)
  \/ \E op \in pending : EditReturns(op)
  \/ \E op \in pending : EditFails(op)

SpecEditor == InitWizard /\ [][NextEditor]_vars

\* ---------------------------------------------------------------- claims
Terminated == pc \in {"done", "failed"}

InLog(ev) == \E i \in DOMAIN log : log[i] = ev

\* the first submit failed and was classified 'not found'
FirstSubmitNotFound == error # NoError /\ isNotFound(error) = "true"

\* the first submit failed and was not classified 'not found'
FirstSubmitNotClassified == error # NoError /\ isNotFound(error) # "true"

Last(seq) == seq[Len(seq)]

\* C1 (as stated): when the first submit fails 'not found' and window.aistudio
\* is present, the finished call has invoked key-selection exactly once and
\* has retried submit exactly once.
C1_AsStated ==
  (Terminated /\ FirstSubmitNotFound /\ aistudio)
    => (keySelections = 1 /\ Len(requests) = 2)

\* C1 (amended): at most 2 submits and at most 1 key-selection ever happen;
\* when the first submit fails 'not found' and window.aistudio is present,
\* key-selection is invoked exactly once, and the retry is issued exactly once
\* as soon as key-selection has completed and the settle delay has elapsed;
\* if key-selection itself fails, no retry is made.
C1_BoundedRecovery ==
  /\ Len(requests) <= 2
  /\ keySelections <= 1
  /\ (FirstSubmitNotFound /\ aistudio) => keySelections = 1
  /\ (FirstSubmitNotFound /\ aistudio /\ InLog("keySelected") /\ pc # "settleWait")
       => Len(requests) = 2
  /\ (FirstSubmitNotFound /\ aistudio /\ ~InLog("keySelected")) => Len(requests) = 1
  /\ InLog("keySelectFail") => (pc = "failed" /\ Len(requests) = 1)

\* C1 witness: a call that recovered, retried and finished
C1_Witness ==
  /\ Terminated /\ FirstSubmitNotFound /\ aistudio
  /\ keySelections = 1 /\ Len(requests) = 2

\* C2 (as stated): a submit failure that is not classified 'not found' makes
\* the call fail with exactly that failure, with no key-selection, no second
\* submit and no poll.
C2_OriginalPropagates ==
  (Terminated /\ FirstSubmitNotClassified)
    => /\ pc = "failed"
       /\ keySelections = 0
       /\ Len(requests) = 1
       /\ pollArgs = <<>>
       /\ thrown = error

\* C3: the polls issued are exactly the handles observed with done = FALSE,
\* each poll carries the handle observed just before it, nothing is polled
\* after a handle with done = TRUE, and a call that got past polling has
\* seen exactly one done handle, the last one.
C3_PollsMatchPending ==
  /\ \A i \in DOMAIN pollArgs :
        /\ i <= Len(observed)
        /\ pollArgs[i] = observed[i]
        /\ ~observed[i].done
  /\ \A i \in DOMAIN observed : observed[i].done => i = Len(observed)
  /\ (observed # <<>> /\ Last(observed).done)
        => /\ Terminated
           /\ Len(pollArgs) = Len(observed) - 1
           /\ Len(pollArgs) = Cardinality({i \in DOMAIN observed : ~observed[i].done})
  /\ (observed # <<>> /\ ~Last(observed).done)
        => Len(pollArgs) \in {Len(observed) - 1, Len(observed)}
  /\ pc = "polling" => Len(pollArgs) = Len(observed)
  /\ pc = "pollWait" => Len(pollArgs) = Len(observed) - 1

\* C3 witness: responses false, false, true and exactly two polls
C3_Witness ==
  /\ pc = "done"
  /\ Len(observed) = 3
  /\ ~observed[1].done /\ ~observed[2].done /\ observed[3].done
  /\ Len(pollArgs) = 2

\* C4: a completed operation without a non-empty uri makes the call fail with
\* the missing-result error and no value; a value is returned only for a
\* completed operation with a non-empty uri; after the missing-result failure
\* nothing more was issued.
C4_MissingResult ==
  /\ (observed # <<>> /\ Last(observed).done /\ Last(observed).response \in MissingShapes \cup {""})
        => /\ pc = "failed"
           /\ thrown = MissingResultError
           /\ result = UNDEF
           /\ Last(log) \in {"submitOk", "pollOk"}
           /\ inflight = [submit |-> 0, poll |-> 0, selectKey |-> 0]
           /\ Len(pollArgs) = Len(observed) - 1
           /\ Len(requests) = IF keySelections = 1 THEN 2 ELSE 1
  /\ result # UNDEF
        => /\ pc = "done"
           /\ Last(observed).done
           /\ Last(observed).response \notin MissingShapes \cup {""}
           /\ result = Last(observed).response \o "&key=" \o API_KEY
  /\ pc = "done" => result # UNDEF
  /\ thrown = MissingResultError => (observed # <<>> /\ Last(observed).done)

\* C4 witness: a poll returned a completed operation without generated videos
C4_Witness ==
  /\ pc = "failed" /\ thrown = MissingResultError
  /\ Len(pollArgs) >= 1
  /\ Last(observed).response = "<no generatedVideos>"

\* C5: every poll comes after a successful submit, directly after the poll
\* interval that followed the return of the previous remote call, and at no
\* time are two remote calls of the call outstanding.
C5_Sequential ==
  /\ inflight.submit + inflight.poll + inflight.selectKey <= 1
  /\ inflight.poll = 1 <=> pc = "polling"
  /\ inflight.submit = 1 <=> pc \in {"submitting", "retrying"}
  /\ \A i \in DOMAIN log : log[i] = "poll" =>
        /\ \E j \in 1..(i - 1) : log[j] = "submitOk"
        /\ i >= 3
        /\ log[i - 1] = "delay5000"
        /\ log[i - 2] \in {"submitOk", "pollOk"}

\* C5 witness: a second poll is outstanding
C5_Witness == pc = "polling" /\ Len(pollArgs) = 2 /\ inflight.poll = 1

\* C6 (as stated): without window.aistudio every submit failure ends the call
\* with the original failure after one submit, no key-selection and no poll.
C6_FatalWithoutHost ==
  (~aistudio /\ error # NoError)
    => /\ pc = "failed"
       /\ Len(requests) = 1
       /\ keySelections = 0
       /\ pollArgs = <<>>
       /\ thrown = error

\* C7: when the retried submit fails, the call fails with the failure of the
\* retry, after exactly two submits, one key-selection and no poll.
C7_RetryFailureFinal ==
  (Cardinality({i \in DOMAIN log : log[i] = "submitFail"}) >= 2)
    => /\ pc = "failed"
       /\ Len(requests) = 2
       /\ Len(failures) = 2
       /\ thrown = failures[2]
       /\ keySelections = 1
       /\ pollArgs = <<>>
       /\ observed = <<>>
       /\ inflight = [submit |-> 0, poll |-> 0, selectKey |-> 0]
       /\ Last(log) = "submitFail"

\* C7 witness: the retry failed with another 'not found' failure
C7_Witness ==
  /\ Len(requests) = 2 /\ Len(failures) = 2
  /\ Last(log) = "submitFail"
  /\ isNotFound(failures[2]) = "true"
  /\ pc = "failed"

\* the foreground rectangle of a finished merge
FgRect == drawn[2]

Half == Rat(1, 2)

\* C8: a merge that produced an output produced it on a canvas, and as an
\* image, of exactly the background's width and height.
C8_OutputDimensions ==
  mpc = "resolved"
    => /\ canvas.width = margs.bg.width
       /\ canvas.height = margs.bg.height
       /\ mresult = Img(margs.bg.width, margs.bg.height)
       /\ drawn[1] = [img |-> "bg", x |-> RInt(0), y |-> RInt(0),
                      w |-> RInt(margs.bg.width), h |-> RInt(margs.bg.height)]

\* C8 witness: a finished merge whose foreground is larger than its
\* background in both dimensions, drawn off-centre at twice the base size
C8_Witness ==
  /\ mpc = "resolved"
  /\ margs.fg.width > margs.bg.width /\ margs.fg.height > margs.bg.height
  /\ margs.fgX = Rat(1, 4) /\ margs.fgScale = RInt(2)

\* C9: the foreground is drawn with width bgWidth * 0.33 * scale, and the
\* centre of the drawn rectangle is (bgWidth * anchor.x, bgHeight * anchor.y);
\* for anchor (0.5, 0.5) and scale 1 the centre is the midpoint of the
\* background and the width is 33/100 of the background width.
C9_CentreAnchored ==
  mpc = "resolved"
    => /\ FgRect.w = Rat(33 * margs.bg.width * margs.fgScale.n, 100 * margs.fgScale.d)
       /\ RAdd(FgRect.x, RMul(FgRect.w, Half)) = Rat(margs.bg.width * margs.fgX.n, margs.fgX.d)
       /\ RAdd(FgRect.y, RMul(FgRect.h, Half)) = Rat(margs.bg.height * margs.fgY.n, margs.fgY.d)
       /\ (margs.fgX = Half /\ margs.fgY = Half /\ margs.fgScale = RInt(1))
            => /\ RAdd(FgRect.x, RMul(FgRect.w, Half)) = Rat(margs.bg.width, 2)
               /\ RAdd(FgRect.y, RMul(FgRect.h, Half)) = Rat(margs.bg.height, 2)
               /\ FgRect.w = Rat(33 * margs.bg.width, 100)

\* C9 witness: a finished merge with anchor (0.5, 0.5) and scale 1
C9_Witness ==
  /\ mpc = "resolved"
  /\ margs.fgX = Half /\ margs.fgY = Half /\ margs.fgScale = RInt(1)
  /\ margs.bg = Img(3, 2)

\* C10: the drawn foreground rectangle has the aspect ratio of the foreground
\* image: drawWidth * fgHeight = drawHeight * fgWidth, for every scale.
C10_AspectPreserved ==
  mpc = "resolved"
    => RMul(FgRect.w, RInt(margs.fg.height)) = RMul(FgRect.h, RInt(margs.fg.width))

\* C10 witness: a non-square foreground drawn at a scale other than 1
C10_Witness ==
  /\ mpc = "resolved"
  /\ margs.fg = Img(1, 3)
  /\ margs.fgScale = Rat(3, 10)
  /\ FgRect.w # RInt(0)

\* a <= b on rationals
RLe(a, b) == a.n * b.d <= b.n * a.d

\* C11 (as stated): a source image that failed to decode, or a canvas
\* without 2D context, leaves the call rejected, with no output.
C11_DecodeFailureRejects ==
  /\ (mpc \notin {"idle", "bgLoading"} /\ ~margs.bg.ok)
        => (mpc = "rejected" /\ mresult = NoImage /\ drawn = <<>>)
  /\ (mpc \notin {"idle", "bgLoading", "fgLoading"} /\ ~margs.fg.ok)
        => (mpc = "rejected" /\ mresult = NoImage /\ drawn = <<>>)
  /\ mpc = "rejected" => (mresult = NoImage /\ drawn = <<>>)
  /\ mpc \notin {"idle", "bgLoading", "fgLoading"} => mpc \in {"resolved", "rejected"}

\* the scale and the anchor the drawn foreground rectangle corresponds to
UsedScale == RDiv(FgRect.w, Rat(33 * margs.bg.width, 100))

UsedAnchorX == RDiv(RAdd(FgRect.x, RMul(FgRect.w, Half)), RInt(margs.bg.width))

UsedAnchorY == RDiv(RAdd(FgRect.y, RMul(FgRect.h, Half)), RInt(margs.bg.height))

\* C12 (as stated): whatever anchor and scale are passed in, the rectangle
\* drawn corresponds to an anchor in [0,1] x [0,1] and a scale in [0.3, 2.0].
C12_ClampedAtBoundary ==
  mpc = "resolved"
    => /\ RLe(Rat(3, 10), UsedScale) /\ RLe(UsedScale, RInt(2))
       /\ RLe(RInt(0), UsedAnchorX) /\ RLe(UsedAnchorX, RInt(1))
       /\ RLe(RInt(0), UsedAnchorY) /\ RLe(UsedAnchorY, RInt(1))

\* the message of a failure, or its string form when it has no message
MessageForm(e) == IF e.message \in {UNDEF, ""} THEN e.toStr ELSE e.message

\* one of the six signs of 'not found' is present on the failure
NotFoundEvidence(e) ==
  /\ e.kind = "object"
  /\ \/ e.status = 404
     \/ e.code = 404
     \/ e.nestedCode = 404
     \/ MessageForm(e) \in {PHRASE, CONTAINS}
     \/ e.nestedMessage \in {PHRASE, CONTAINS}
     \/ e.json \in {PHRASE, CONTAINS}

\* C17 (as stated): the failure of the first submit is classified 'not
\* found' exactly when one of the six signs is present, and is classified
\* as a hard failure otherwise.
C17_ClassifierIff ==
  error # NoError
    => /\ isNotFound(error) = "true" <=> NotFoundEvidence(error)
       /\ ~NotFoundEvidence(error) => isNotFound(error) = "false"

\* C19: the retry is issued only after key-selection has completed and the
\* settle delay has elapsed, in this order, and every submit carries the
\* image, the aspect ratio and the prompt of the call, the default text
\* standing in for an empty prompt.
C19_RecoveryOrder ==
  /\ Len(requests) = 2
       => /\ Len(log) >= 6
          /\ SubSeq(log, 1, 6) = <<"submit", "submitFail", "openSelectKey",
                                   "keySelected", "delay1000", "submit">>
          /\ requests[2] = requests[1]
  /\ Len(requests) <= 1 => ~InLog("delay1000")
  /\ pc \in {"selectingKey", "settleWait"} => Len(requests) = 1
  /\ pc = "settleWait" => Last(log) = "keySelected"
  /\ \A i \in DOMAIN requests :
       /\ requests[i].imageBytes = args.imageBase64
       /\ requests[i].aspectRatio = args.aspectRatio
       /\ requests[i].prompt =
            IF args.prompt = "" THEN "Animate this scene naturally." ELSE args.prompt

\* C19 witness: a retry of a portrait request with an empty prompt
C19_Witness ==
  /\ Len(requests) = 2
  /\ args.prompt = "" /\ args.aspectRatio = "9:16"
  /\ pc = "retrying"

InLoop == pc \in {"pollWait", "polling"}

\* C18: the call terminates only after a handle with done = TRUE was
\* observed or an awaited call failed; if the service completes the
\* operation and every call returns, the call eventually terminates; if the
\* service never completes it, the call stays in the polling loop for ever
\* and issues every poll the model allows.
C18_UnboundedPolling ==
  /\ [](Terminated => ((observed # <<>> /\ Last(observed).done) \/ failures # <<>>))
  /\ []((remote = "completes" /\ pc # "idle") => <>Terminated)
  /\ [][(remote = "never" /\ InLoop) => (pc' \in {"pollWait", "polling"})]_vars
  /\ []((remote = "never" /\ InLoop) => <>(Len(pollArgs) = MaxPolls))

\* C18 witness: the service never completes and the call has issued every
\* poll the model allows and waits to poll again
C18_Witness ==
  /\ remote = "never"
  /\ pc = "pollWait"
  /\ Len(pollArgs) = MaxPolls

InUnit(r) == RLe(RInt(0), r) /\ RLe(r, RInt(1))

ScaleInRange(r) == RLe(Rat(3, 10), r) /\ RLe(r, RInt(2))

\* C13: after any sequence of composer events the anchor of the editor lies
\* in [0,1] x [0,1] and its scale in [0.3, 2.0], and so do the anchor and
\* scale of every mergeImages call issued by handleAction.
C13_PlacementInRange ==
  /\ InUnit(ie.fgPos.x)
  /\ InUnit(ie.fgPos.y)
  /\ ScaleInRange(ie.fgScale)
  /\ \A op \in pending :
       op.cap = "merge" => InUnit(op.x) /\ InUnit(op.y) /\ ScaleInRange(op.s)

\* C13 witness: a merge was issued after a drag that left the box on two
\* sides and with the slider at its minimum
C13_Witness ==
  \E op \in pending :
    /\ op.cap = "merge"
    /\ op.x = RInt(0)
    /\ op.y = RInt(1)
    /\ op.s = Rat(3, 10)

RemoteCapabilities == {"search", "locimg", "edit", "video"}

Outstanding(cap) == {op \in pending : op.cap = cap}

\* C14 (as stated): over all sequences of UI interactions, Back during an
\* outstanding operation included, at most one invocation of each remote
\* capability is outstanding at any time.
C14_OneOutstanding ==
  \A cap \in RemoteCapabilities : Cardinality(Outstanding(cap)) <= 1

\* the busy flag of the handler that issued a call of capability cap, in
\* the component instance inst, after the step
BusyAfter(cap, inst) ==
  CASE cap = "search" -> inst = mounted.lf /\ lf'.isSearching
    [] cap = "locimg" -> inst = mounted.lf /\ lf'.isGeneratingImage
    [] cap = "edit" -> inst = mounted.ie /\ ie'.isProcessing
    [] cap = "video" -> inst = mounted.va /\ va'.isGenerating
    [] OTHER -> FALSE

\* C15 (as stated): every failure of a remote call is caught in the handler
\* that issued it: the handler raises a user notification, clears its busy
\* flag, leaves the wizard step and the stored results unchanged, and no
\* failure escapes the handler.
C15_FailuresCaught ==
  [][ (lastSettle' # lastSettle /\ lastSettle'.failed
         /\ lastSettle'.cap \in RemoteCapabilities)
        => /\ lastSettle'.alerted
           /\ ~lastSettle'.escaped
           /\ ~BusyAfter(lastSettle'.cap, lastSettle'.inst)
           /\ UNCHANGED <<currentStep, selectedLocationName, selectedLocationImage,
                          finalCompositeImage>>
           /\ ie'.compositeImage = ie.compositeImage
           /\ va'.videoUrl = va.videoUrl ]_vars

\* image b was made from location image a
DerivedFrom(b, a) == b.place = a.place /\ b.by = a.by

C16_Steps ==
  /\ currentStep \in {"SEARCH", "COMPOSITE", "ANIMATE"}
  /\ currentStep \in {"COMPOSITE", "ANIMATE"} => selectedLocationImage.kind = "location"
  /\ (currentStep = "COMPOSITE" /\ ie.compositeImage # NoBase64)
       => /\ ie.compositeImage.kind = "edited"
          /\ DerivedFrom(ie.compositeImage, selectedLocationImage)
  /\ currentStep = "ANIMATE"
       => /\ finalCompositeImage.kind = "edited"
          /\ DerivedFrom(finalCompositeImage, selectedLocationImage)
          /\ \A op \in Outstanding("video") :
               op.inst = mounted.va
                 => op.a = finalCompositeImage /\ DerivedFrom(op.a, selectedLocationImage)

C16_Moves ==
  currentStep' # currentStep =>
    \/ /\ currentStep = "SEARCH" /\ currentStep' = "COMPOSITE"
       /\ lastSettle' # lastSettle /\ lastSettle'.cap = "locimg" /\ ~lastSettle'.failed
       /\ selectedLocationImage'.kind = "location"
       /\ selectedLocationImage'.by = lastSettle'.inst
       /\ UNCHANGED finalCompositeImage
    \/ /\ currentStep = "COMPOSITE" /\ currentStep' = "ANIMATE"
       /\ ie.compositeImage # NoBase64
       /\ finalCompositeImage' = ie.compositeImage
       /\ UNCHANGED <<selectedLocationName, selectedLocationImage>>
    \/ /\ \/ currentStep = "COMPOSITE" /\ currentStep' = "SEARCH"
          \/ currentStep = "ANIMATE" /\ currentStep' = "COMPOSITE"
       /\ UNCHANGED <<selectedLocationName, selectedLocationImage, finalCompositeImage>>

\* C16: the step is always SEARCH, COMPOSITE or ANIMATE; COMPOSITE is
\* entered from SEARCH only with a generated location image; ANIMATE is
\* entered from COMPOSITE only with the non-empty composite of the mounted
\* editor, made from the selected location image; Back moves one step back
\* and changes neither the stored location nor the stored composite; in
\* ANIMATE the image handed to video generation is a composite made from
\* the selected location image.
C16_ForwardOnly == []C16_Steps /\ [][C16_Moves]_vars

\* C16 witness: in ANIMATE a video request of the mounted animator is
\* outstanding while a call of an unmounted component is outstanding too
C16_Witness ==
  /\ currentStep = "ANIMATE"
  /\ \E op \in Outstanding("video") : op.inst = mounted.va
  /\ \E op \in pending : op.inst # mounted.va

\* the call can still settle: every remote call returns or fails, a merge
\* settles unless only its foreground fails to decode
CanSettle(op) ==
  op.cap = "merge" => \E ctx \in BOOLEAN : MergeOutcome(op.a.ok, op.b.ok, ctx) # "pending"

\* C20 (as stated): whenever isProcessing is set, a call of the mounted
\* editor's handleAction is outstanding that settles, so that the flag is
\* cleared again; this includes a foreground or background that cannot be
\* decoded.
C20_ProcessingSettles ==
  (currentStep = "COMPOSITE" /\ ie.isProcessing)
    => \E op \in pending : op.inst = mounted.ie /\ CanSettle(op)

Count(ev) == Cardinality({i \in DOMAIN log : log[i] = ev})

\* C21: when a poll fails the call fails at once with that failure: the
\* failed poll is the last thing the call did, so no further poll, no
\* re-submit and no key-selection follows it, also when the failure carries
\* the signs of "not found" and the host is present.
C21_PollFailureFinal ==
  InLog("pollFail")
    => /\ pc = "failed"
       /\ thrown = Last(failures)
       /\ Last(log) = "pollFail"
       /\ Count("pollFail") = 1
       /\ inflight = [submit |-> 0, poll |-> 0, selectKey |-> 0]
       /\ Len(requests) = Count("submit")
       /\ keySelections = Count("openSelectKey")
       /\ Len(pollArgs) = Count("poll")

\* C21 witness: with the host present, a poll failed with a failure the
\* classifier would call "not found", after a submit that needed no recovery
C21_Witness ==
  /\ InLog("pollFail")
  /\ aistudio
  /\ Last(failures).kind # "null"
  /\ isNotFound(Last(failures)) = "true"
  /\ keySelections = 0

\* the step is a click on Generate Composite / Apply Edit
ActionClicked == ~ie.isProcessing /\ ie'.isProcessing

\* C22: within one ImageEditor instance a composite, once present, stays
\* present; mergeImages is invoked only while there is no composite; with a
\* composite every handleAction sends that composite to the edit call, also
\* after the photo was replaced or the foreground moved or scaled; a failed
\* action leaves the composite as it was.
C22_CompositeKept ==
  [][ mounted.ie' = mounted.ie =>
        /\ ie.compositeImage # NoBase64 => ie'.compositeImage # NoBase64
        /\ \A op \in pending' \ pending :
             op.cap = "merge" => ie.compositeImage = NoBase64
        /\ (ActionClicked /\ ie.compositeImage # NoBase64)
             => pending' \ pending =
                  {Call("edit", mounted.ie, ie.compositeImage, NoBase64,
                        RInt(0), RInt(0), RInt(0), <<>>)}
        /\ (lastSettle' # lastSettle /\ lastSettle'.failed)
             => ie'.compositeImage = ie.compositeImage ]_vars

\* C22 witness: with a composite present the photo was replaced by one that
\* does not decode, the foreground was rescaled, and an edit of the
\* composite is outstanding
C22_Witness ==
  /\ ie.compositeImage # NoBase64
  /\ ie.userImage.kind = "upload"
  /\ ~ie.userImage.ok
  /\ ie.fgScale = Rat(3, 10)
  /\ \E op \in pending :
       op.cap = "edit" /\ op.inst = mounted.ie /\ op.a = ie.compositeImage

====
